---- MODULE Spec2Model ----
(***************************************************************************)
(* The SQLite-backed relationship store of rss-graph (package graph):      *)
(* the feeds, links, mentions and mention_snapshots tables and the         *)
(* operations of Graph on them.  Every Graph method issues its statements  *)
(* on one *sql.DB handle; an action below is one whole method call.        *)
(*                                                                         *)
(* Strings the store only compares with = (URLs, titles, names, contexts)  *)
(* are opaque values.  Snapshot dates are the fixed-width "2006-01-02"     *)
(* strings of main.go; SQLite compares them bytewise, which for that       *)
(* format is the order of the day numbers used here.  feeds.created_at is  *)
(* the day CURRENT_TIMESTAMP gave the insert; GetNewFeeds compares it with *)
(* datetime('now', '-N days'), both "YYYY-MM-DD HH:MM:SS" strings.  The    *)
(* discovered_at columns and mention_snapshots.id are left out: no         *)
(* statement modelled here selects or compares them.                       *)
(***************************************************************************)
EXTENDS Integers, Sequences, FiniteSets, TLC

\* now is the clock CURRENT_TIMESTAMP and datetime('now') read.
\* procs holds the local variables of the commands and callers that are in
\* the middle of their work; it is empty while every call runs to its end
\* before the next begins.
VARIABLES feeds, links, mentions, snapshots, ret, now, procs

vars == <<feeds, links, mentions, snapshots, ret, now, procs>>

(* ---------------------------------------------------------------- bounds *)

\* Rows the links table may hold in a run.
MaxLinks == 2

\* Rows the mentions table may hold in a run.
MaxMentions == 2

\* Largest limit argument passed to a ranking query.
MaxLimit == 3

\* Mention rows of a database opened with history (SpecRising).
MaxRows == 8

\* Link rows in the ranked store.
MaxEdges == 4

\* Sources that mention one name under one entity type (SpecMentioned).
MaxCount == 2

\* Days the clock may move on in a run (SpecNewFeeds).
MaxNow == 2

\* Store calls that may fail in the runs of a command (SpecIngest).
MaxFaults == 1

(* ---------------------------------------------------------- input domains *)

URLs == {"u1", "u1/"}

Titles == {"t1", "t2"}

\* Feed ids a caller may name as the endpoint of a link or the source of a
\* mention (foreign keys are declared but SQLite does not enforce them unless
\* PRAGMA foreign_keys is set, which NewGraph never does).
FeedIds == 1..Cardinality(URLs)

PostURLs == {"p1", "p2"}

\* (context, post_title) of a link as a caller supplies them.
LinkTexts == {<<"c1", "pt1">>, <<"c2", "pt2">>}

LinkInputs ==
  { [source_id |-> s, target_id |-> t, context |-> x[1], post_url |-> p, post_title |-> x[2]] :
      s \in FeedIds, t \in FeedIds, p \in PostURLs, x \in LinkTexts }

Names == {"n1", "n2"}

EntityTypes == {"PERSON", "ORG"}

MentionInputs ==
  { [source_id |-> s, name |-> n, entity_type |-> e, context |-> "", post_url |-> p, post_title |-> "pt"] :
      s \in FeedIds, n \in Names, e \in EntityTypes, p \in {"p1"} }

\* Two snapshot days, and the day after them as a pruning cutoff.
Dates == {1, 2}

PruneDates == {1, 2, 3}

Limits == 0..MaxLimit

\* The -days argument of rank -new.
Days == {0, 1, 2}

(* ---------------------------------------------------------------- helpers *)

\* The absent result of a lookup (a nil *FeedNode).
Nil == [id |-> 0]

\* The call that ran last, with what it returned.
Call(op, arg, val, err) == [op |-> op, arg |-> arg, val |-> val, err |-> err]

SetMax(S) == CHOOSE x \in S : \A y \in S : y <= x

\* INTEGER PRIMARY KEY AUTOINCREMENT: one more than the largest rowid the
\* table has held; no row of feeds, links or mentions is ever deleted.
NextRowId(table) == IF table = {} THEN 1 ELSE SetMax({r.id : r \in table}) + 1

(* ------------------------------------------------------------------ feeds *)

\* A lookup that takes a URL with and without its trailing slash for the same.
FeedRowsByTrimmedURL(url) ==
  {f \in feeds : f.url = url \/ {f.url, url} = {"u1", "u1/"}}

\* SELECT id, url, title, created_at FROM feeds WHERE url = ?
FeedRowsByURL(url) == {f \in feeds : f.url = url}

\* A lookup that finds no row.
LookupMisses(url) == Nil

GetFeedByURLResult(url) ==
  IF FeedRowsByURL(url) = {} THEN Nil ELSE CHOOSE f \in FeedRowsByURL(url) : TRUE

\* The INSERT on a feeds table without UNIQUE on url.
InsertFeedAgain(url, title) ==
  [err |-> FALSE, id |-> NextRowId(feeds),
   rows |-> feeds \cup {[id |-> NextRowId(feeds), url |-> url, title |-> title,
                          created_at |-> now]}]

\* INSERT INTO feeds (url, title) VALUES (?, ?): fails on the UNIQUE url.
InsertFeed(url, title) ==
  IF \E f \in feeds : f.url = url
    THEN [err |-> TRUE, id |-> 0, rows |-> feeds]
    ELSE [err |-> FALSE, id |-> NextRowId(feeds),
          rows |-> feeds \cup {[id |-> NextRowId(feeds), url |-> url, title |-> title,
                                 created_at |-> now]}]

AddFeed(url, title) ==
  LET existing == GetFeedByURLResult(url)
      ins == InsertFeed(url, title)
  IN  /\ IF existing # Nil
           THEN /\ feeds' = feeds
                /\ ret' = Call("AddFeed", <<url, title>>, existing.id, FALSE)
           ELSE /\ feeds' = ins.rows
                /\ ret' = Call("AddFeed", <<url, title>>, ins.id, ins.err)
      /\ UNCHANGED <<links, mentions, snapshots, now>>

GetFeedByURL(url) ==
  /\ ret' = Call("GetFeedByURL", <<url>>, GetFeedByURLResult(url), FALSE)
  /\ UNCHANGED <<feeds, links, mentions, snapshots, now>>

(* ------------------------------------------------------------------ links *)

LinkKey(l) == <<l.source_id, l.target_id, l.post_url>>

\* INSERT OR REPLACE in place of INSERT OR IGNORE: the stored row is deleted.
InsertOrReplaceLink(link) ==
  {l \in links : LinkKey(l) # LinkKey(link)} \cup
    {[id |-> NextRowId(links), source_id |-> link.source_id,
      target_id |-> link.target_id, context |-> link.context,
      post_url |-> link.post_url, post_title |-> link.post_title]}

\* A plain INSERT on a table without the UNIQUE constraint.
InsertLinkAgain(link) ==
  links \cup {[id |-> NextRowId(links), source_id |-> link.source_id,
              target_id |-> link.target_id, context |-> link.context,
              post_url |-> link.post_url, post_title |-> link.post_title]}

\* INSERT OR IGNORE INTO links (...): the row is skipped when it would break
\* UNIQUE(source_id, target_id, post_url).
InsertOrIgnoreLink(link) ==
  IF \E l \in links : LinkKey(l) = LinkKey(link)
    THEN links
    ELSE links \cup {[id |-> NextRowId(links), source_id |-> link.source_id,
                      target_id |-> link.target_id, context |-> link.context,
                      post_url |-> link.post_url, post_title |-> link.post_title]}

AddLink(link) ==
  /\ links' = InsertOrIgnoreLink(link)
  /\ ret' = Call("AddLink", link, 0, FALSE)
  /\ UNCHANGED <<feeds, mentions, snapshots, now>>

(* --------------------------------------------------------------- mentions *)

MentionKey(m) == <<m.source_id, m.name, m.post_url>>

\* Insert-or-ignore on (name, post_url) alone.
InsertMentionUniquePerPost(mention) ==
  IF \E m \in mentions : m.name = mention.name /\ m.post_url = mention.post_url
    THEN mentions
    ELSE mentions \cup {[id |-> NextRowId(mentions), source_id |-> mention.source_id,
                         name |-> mention.name, entity_type |-> mention.entity_type,
                         context |-> mention.context, post_url |-> mention.post_url,
                         post_title |-> mention.post_title]}

\* INSERT OR REPLACE in place of INSERT OR IGNORE: the stored row is deleted.
InsertOrReplaceMention(mention) ==
  {m \in mentions : MentionKey(m) # MentionKey(mention)} \cup
    {[id |-> NextRowId(mentions), source_id |-> mention.source_id,
      name |-> mention.name, entity_type |-> mention.entity_type,
      context |-> mention.context, post_url |-> mention.post_url,
      post_title |-> mention.post_title]}

\* INSERT OR IGNORE INTO mentions (...): the row is skipped when it would
\* break UNIQUE(source_id, name, post_url).
InsertOrIgnoreMention(mention) ==
  IF \E m \in mentions : MentionKey(m) = MentionKey(mention)
    THEN mentions
    ELSE mentions \cup {[id |-> NextRowId(mentions), source_id |-> mention.source_id,
                         name |-> mention.name, entity_type |-> mention.entity_type,
                         context |-> mention.context, post_url |-> mention.post_url,
                         post_title |-> mention.post_title]}

AddMention(mention) ==
  /\ mentions' = InsertOrIgnoreMention(mention)
  /\ ret' = Call("AddMention", mention, 0, FALSE)
  /\ UNCHANGED <<feeds, links, snapshots, now>>

\* The live counts without the WHERE entity_type = ? clause.
LiveCountsAllTypes(entityType) ==
  [n \in {m.name : m \in {x \in mentions : x.entity_type = entityType}} |->
     Cardinality({m \in mentions : m.name = n})]

\* SELECT name, COUNT(*) FROM mentions WHERE entity_type = ? GROUP BY name,
\* as a map from name to count.
LiveCounts(entityType) ==
  [n \in {m.name : m \in {x \in mentions : x.entity_type = entityType}} |->
     Cardinality({m \in mentions : m.entity_type = entityType /\ m.name = n})]

\* All orders in which the elements of S can be listed.
Orderings(S) ==
  {f \in [1..Cardinality(S) -> S] : \A i, j \in 1..Cardinality(S) : i # j => f[i] # f[j]}

\* LIMIT ? of SQLite: a negative limit is no limit.
SqlLimit(rows, limit) ==
  IF limit < 0 \/ Len(rows) <= limit THEN rows ELSE SubSeq(rows, 1, limit)

\* The mention rows whatever their type.
MentionRowsAnyType(entityType) == mentions

\* FROM mentions WHERE entity_type = ?
MentionRowsOfType(entityType) == {m \in mentions : m.entity_type = entityType}

\* SELECT name, entity_type, COUNT(*) ... WHERE entity_type = ? GROUP BY name
\* ORDER BY mention_count DESC LIMIT ?: any order that is descending by count.
MostMentionedResults(entityType, limit) ==
  LET rows == MentionRowsOfType(entityType)
      counts == [n \in {m.name : m \in rows} |-> Cardinality({m \in rows : m.name = n})]
      ranked == {o \in Orderings(DOMAIN counts) :
                   \A i, j \in 1..Len(o) : i < j => counts[o[i]] >= counts[o[j]]}
  IN  {SqlLimit([i \in 1..Len(o) |->
                   [Name |-> o[i], EntityType |-> entityType, MentionCount |-> counts[o[i]]]],
                limit) : o \in ranked}

GetMostMentioned(entityType, limit) ==
  /\ \E r \in MostMentionedResults(entityType, limit) :
       ret' = Call("GetMostMentioned", <<entityType, limit>>, r, FALSE)
  /\ UNCHANGED <<feeds, links, mentions, snapshots, now>>

\* SELECT ... FROM mentions WHERE source_id = ?: no ORDER BY, any order.
GetMentionsByFeed(feedID) ==
  /\ \E r \in Orderings({m \in mentions : m.source_id = feedID}) :
       ret' = Call("GetMentionsByFeed", <<feedID>>, r, FALSE)
  /\ UNCHANGED <<feeds, links, mentions, snapshots, now>>

(* -------------------------------------------------------------- snapshots *)

SnapshotKey(s) == <<s.name, s.entity_type, s.snapshot_date>>

\* SELECT name, entity_type, COUNT(*), ? FROM mentions GROUP BY name, entity_type
SnapshotSelect(date) ==
  {[name |-> g[1], entity_type |-> g[2],
    mention_count |-> Cardinality({m \in mentions : m.name = g[1] /\ m.entity_type = g[2]}),
    snapshot_date |-> date] : g \in {<<m.name, m.entity_type>> : m \in mentions}}

\* INSERT OR IGNORE in place of INSERT OR REPLACE: a stored row wins.
InsertOrIgnoreSnapshots(rows) ==
  snapshots \cup {r \in rows : \A s \in snapshots : SnapshotKey(s) # SnapshotKey(r)}

\* A plain INSERT on a table without the UNIQUE constraint.
InsertSnapshots(rows) == snapshots \cup rows

\* The snapshot table overwritten by the rows of the date.
RewriteSnapshots(rows) == rows

\* INSERT OR REPLACE INTO mention_snapshots: a stored row that has the key
\* UNIQUE(name, entity_type, snapshot_date) of a new row is deleted first.
InsertOrReplaceSnapshots(rows) ==
  {s \in snapshots : \A r \in rows : SnapshotKey(s) # SnapshotKey(r)} \cup rows

TakeSnapshot(date) ==
  /\ snapshots' = InsertOrReplaceSnapshots(SnapshotSelect(date))
  /\ ret' = Call("TakeSnapshot", <<date>>, Cardinality(SnapshotSelect(date)), FALSE)
  /\ UNCHANGED <<feeds, links, mentions, now>>

\* snapshot_date <= ? in place of snapshot_date < ?
PruneDeletesThrough(beforeDate) == {s \in snapshots : s.snapshot_date <= beforeDate}

\* DELETE FROM mention_snapshots WHERE snapshot_date < ?
PruneDeletes(beforeDate) == {s \in snapshots : s.snapshot_date < beforeDate}

PruneSnapshots(beforeDate) ==
  /\ snapshots' = snapshots \ PruneDeletes(beforeDate)
  /\ ret' = Call("PruneSnapshots", <<beforeDate>>, Cardinality(PruneDeletes(beforeDate)), FALSE)
  /\ UNCHANGED <<feeds, links, mentions, now>>

\* ORDER BY snapshot_date DESC of a set of dates.
RECURSIVE DatesDescending(_)
DatesDescending(S) ==
  IF S = {} THEN <<>> ELSE <<SetMax(S)>> \o DatesDescending(S \ {SetMax(S)})

\* The dates oldest first.
SnapshotDatesAscending ==
  LET d == DatesDescending({s.snapshot_date : s \in snapshots})
  IN  [i \in 1..Len(d) |-> d[Len(d) + 1 - i]]

\* SELECT DISTINCT snapshot_date FROM mention_snapshots ORDER BY
\* snapshot_date DESC
SnapshotDates == DatesDescending({s.snapshot_date : s \in snapshots})

GetSnapshotDates ==
  /\ ret' = Call("GetSnapshotDates", <<>>, SnapshotDates, FALSE)
  /\ UNCHANGED <<feeds, links, mentions, snapshots, now>>

(* ---------------------------------------------------------------- velocity *)

\* SELECT name, mention_count FROM mention_snapshots WHERE entity_type = ? AND
\* snapshot_date = ?, scanned into a map from name to count.
SnapshotCounts(entityType, date) ==
  LET rows == {s \in snapshots : s.entity_type = entityType /\ s.snapshot_date = date}
  IN  [n \in {s.name : s \in rows} |-> (CHOOSE s \in rows : s.name = n).mention_count]

\* currentCounts: the snapshot of currentDate, or the live counts when that
\* map is empty.
CurrentCounts(entityType, currentDate) ==
  IF DOMAIN SnapshotCounts(entityType, currentDate) = {}
    THEN LiveCounts(entityType)
    ELSE SnapshotCounts(entityType, currentDate)

\* Previous counts that fall back to the live counts as the current ones do.
PreviousCountOrLive(entityType, previousDate, name) ==
  IF DOMAIN SnapshotCounts(entityType, previousDate) = {}
    THEN IF name \in DOMAIN LiveCounts(entityType) THEN LiveCounts(entityType)[name] ELSE 0
    ELSE IF name \in DOMAIN SnapshotCounts(entityType, previousDate)
           THEN SnapshotCounts(entityType, previousDate)[name]
           ELSE 0

\* previousCounts[name]: a Go map yields 0 for a missing key.
PreviousCount(entityType, previousDate, name) ==
  IF name \in DOMAIN SnapshotCounts(entityType, previousDate)
    THEN SnapshotCounts(entityType, previousDate)[name]
    ELSE 0

\* A float64 velocity is kept as the fraction <<numerator, denominator>> it
\* was computed from, denominator > 0.  The counts are far below 2^26, where
\* the float64 quotients of two different fractions differ and compare as the
\* fractions do.
VelocityNew(current) == <<current, 1>>

VelocityGrowth(current, previous) == <<current - previous, previous>>

VelGreater(a, b) == a[1] * b[2] > b[1] * a[2]

\* velocity >= 1.0 in place of velocity > 1.0
IsHotFromOne(velocity, current) == ~VelGreater(<<1, 1>>, velocity) /\ current >= 3

\* velocity > 1.0 && current >= 4
IsHotFromFour(velocity, current) == VelGreater(velocity, <<1, 1>>) /\ current >= 4

\* velocity > 1.0 && current >= 3
IsHot(velocity, current) == VelGreater(velocity, <<1, 1>>) /\ current >= 3

\* velocity > 0.5
IsRising(velocity) == VelGreater(velocity, <<1, 2>>)

\* The velocity and status of one name.
Classify(current, previous) ==
  IF previous = 0
    THEN [Velocity |-> VelocityNew(current), Status |-> "new"]
    ELSE LET velocity == VelocityGrowth(current, previous)
         IN  [Velocity |-> velocity,
              Status |-> IF IsHot(velocity, current) THEN "hot"
                         ELSE IF IsRising(velocity) THEN "rising"
                         ELSE ""]

\* status != "" || (status == "new" && current >= 2)
Included(status, current) == status # "" \/ (status = "new" /\ current >= 2)

RisingEntry(entityType, name, current, previous) ==
  [Name |-> name, EntityType |-> entityType, CurrentCount |-> current,
   PreviousCount |-> previous, Velocity |-> Classify(current, previous).Velocity,
   Status |-> Classify(current, previous).Status]

\* The loop over currentCounts, visiting the names in the given order and
\* appending the included ones; previous is the previous count of a name.
RECURSIVE CollectRising(_, _, _, _, _)
CollectRising(entityType, current, previous, order, i) ==
  IF i > Len(order) THEN <<>>
  ELSE LET e == RisingEntry(entityType, order[i], current[order[i]], previous[order[i]])
           rest == CollectRising(entityType, current, previous, order, i + 1)
       IN  IF Included(e.Status, e.CurrentCount) THEN <<e>> \o rest ELSE rest

Swap(s, i, j) == [s EXCEPT ![i] = s[j], ![j] = s[i]]

\* The inner loop with the comparison turned round.
RECURSIVE SortInnerAscending(_, _, _)
SortInnerAscending(s, i, j) ==
  IF j > Len(s) THEN s
  ELSE SortInnerAscending(IF VelGreater(s[i].Velocity, s[j].Velocity) THEN Swap(s, i, j) ELSE s,
                          i, j + 1)

\* for j := i + 1; j < len(results); j++ { if results[j].Velocity >
\* results[i].Velocity { swap } }   (positions from 1 here)
RECURSIVE SortInner(_, _, _)
SortInner(s, i, j) ==
  IF j > Len(s) THEN s
  ELSE SortInner(IF VelGreater(s[j].Velocity, s[i].Velocity) THEN Swap(s, i, j) ELSE s, i, j + 1)

\* for i := 0; i < len(results); i++ { ... }
RECURSIVE SortByVelocity(_, _)
SortByVelocity(s, i) ==
  IF i > Len(s) THEN s ELSE SortByVelocity(SortInner(s, i, i + 1), i + 1)

\* if len(results) > limit { results = results[:limit] }
LimitResults(results, limit) ==
  IF Len(results) > limit THEN SubSeq(results, 1, limit) ELSE results

\* Go visits the keys of a map in an unspecified order: every order is a
\* possible run.
RisingSorted(entityType, currentDate, previousDate) ==
  LET current == CurrentCounts(entityType, currentDate)
      previous == [n \in DOMAIN current |-> PreviousCount(entityType, previousDate, n)]
  IN  {SortByVelocity(CollectRising(entityType, current, previous, order, 1), 1) :
         order \in Orderings(DOMAIN current)}

RisingResults(entityType, currentDate, previousDate, limit) ==
  {LimitResults(r, limit) : r \in RisingSorted(entityType, currentDate, previousDate)}

\* results[:limit] is reached when len(results) > limit; the slice expression
\* panics at run time when limit is negative.
SlicePanics(results, limit) == Len(results) > limit /\ limit < 0

\* The query that keeps the live counts it fell back to as the snapshot of
\* currentDate.
GetRisingMentionsSaving(entityType, currentDate, previousDate, limit) ==
  /\ \E r \in RisingResults(entityType, currentDate, previousDate, limit) :
       ret' = Call("GetRisingMentions", <<entityType, currentDate, previousDate, limit>>, r, FALSE)
  /\ snapshots' =
       IF DOMAIN SnapshotCounts(entityType, currentDate) = {}
         THEN snapshots \cup
                {[name |-> n, entity_type |-> entityType,
                  mention_count |-> LiveCounts(entityType)[n],
                  snapshot_date |-> currentDate] : n \in DOMAIN LiveCounts(entityType)}
         ELSE snapshots
  /\ UNCHANGED <<feeds, links, mentions, now>>

\* A call that panics returns nothing: it is recorded with op "panic" and the
\* arguments of the call.
GetRisingMentions(entityType, currentDate, previousDate, limit) ==
  /\ \E r \in RisingSorted(entityType, currentDate, previousDate) :
       ret' = IF SlicePanics(r, limit)
                THEN Call("panic", <<entityType, currentDate, previousDate, limit>>, <<>>, FALSE)
                ELSE Call("GetRisingMentions", <<entityType, currentDate, previousDate, limit>>,
                          LimitResults(r, limit), FALSE)
  /\ UNCHANGED <<feeds, links, mentions, snapshots, now>>

(* ----------------------------------------------------------- link queries *)

\* The rows of a result set that has no ORDER BY, in any order.
ScanLinks(rows) == Orderings(rows)

\* SELECT ... FROM links WHERE source_id = ?
GetOutboundLinks(feedID) ==
  /\ \E r \in ScanLinks({l \in links : l.source_id = feedID}) :
       ret' = Call("GetOutboundLinks", <<feedID>>, r, FALSE)
  /\ UNCHANGED <<feeds, links, mentions, snapshots, now>>

\* The rows that cite the feed or are cited by it.
LinksTouching(feedID) == {l \in links : l.target_id = feedID \/ l.source_id = feedID}

\* SELECT ... FROM links WHERE target_id = ?
LinksTo(feedID) == {l \in links : l.target_id = feedID}

GetInboundLinks(feedID) ==
  /\ \E r \in ScanLinks(LinksTo(feedID)) :
       ret' = Call("GetInboundLinks", <<feedID>>, r, FALSE)
  /\ UNCHANGED <<feeds, links, mentions, snapshots, now>>

\* COUNT(l.id) over the join on the source side.
OutboundCount(f) == Cardinality({l \in links : l.source_id = f.id})

\* COUNT(l.id) of feeds f LEFT JOIN links l ON f.id = l.target_id GROUP BY
\* f.id: the number of link rows joined to the feed row, 0 when none is.
InboundCount(f) == Cardinality({l \in links : l.target_id = f.id})

\* ... HAVING link_count > 0 ORDER BY link_count DESC LIMIT ?: any order that
\* is descending by count.
MostLinkedResults(limit) ==
  LET linked == {f \in feeds : InboundCount(f) > 0}
      ranked == {o \in Orderings(linked) :
                   \A i, j \in 1..Len(o) : i < j => InboundCount(o[i]) >= InboundCount(o[j])}
  IN  {SqlLimit([i \in 1..Len(o) |-> [Feed |-> o[i], InboundCount |-> InboundCount(o[i])]],
                limit) : o \in ranked}

GetMostLinked(limit) ==
  /\ \E r \in MostLinkedResults(limit) :
       ret' = Call("GetMostLinked", <<limit>>, r, FALSE)
  /\ UNCHANGED <<feeds, links, mentions, snapshots, now>>

\* The time the clock shows moves on between calls.
Tick ==
  /\ now' = now + 1
  /\ UNCHANGED <<feeds, links, mentions, snapshots, ret>>

\* The feeds of the window under an inner join: those without link rows drop
\* out.
FeedsSinceLinked(days) ==
  {f \in feeds : f.created_at >= now - days /\ InboundCount(f) > 0}

\* FROM feeds f ... WHERE f.created_at >= datetime('now', ? || ' days'), the
\* parameter being -days.
FeedsSince(days) == {f \in feeds : f.created_at >= now - days}

\* ... LEFT JOIN links l ON f.id = l.target_id ... GROUP BY f.id ORDER BY
\* f.created_at DESC LIMIT ?: a feed without link rows keeps its row, with
\* count 0; any order that is descending by created_at.
NewFeedsResults(days, limit) ==
  LET ranked == {o \in Orderings(FeedsSince(days)) :
                   \A i, j \in 1..Len(o) : i < j => o[i].created_at >= o[j].created_at}
  IN  {SqlLimit([i \in 1..Len(o) |-> [Feed |-> o[i], InboundCount |-> InboundCount(o[i])]],
                limit) : o \in ranked}

GetNewFeeds(days, limit) ==
  /\ \E r \in NewFeedsResults(days, limit) :
       ret' = Call("GetNewFeeds", <<days, limit>>, r, FALSE)
  /\ UNCHANGED <<feeds, links, mentions, snapshots, now>>

(* -------------------------------------------------------------- ingestion *)

\* g.db.Exec or g.db.QueryRow hands back an error: the call returns it and
\* has written nothing.
StoreFails(op, arg) ==
  /\ ret' = Call(op, arg, 0, TRUE)
  /\ UNCHANGED <<feeds, links, mentions, snapshots, now>>

\* isSameDomain: the two URLs have the same host.  The sites of the model
\* have one URL each.
IsSameDomain(url1, url2) == url1 = url2

\* The command whose loop is running: procs = <<p>>, p holding
\*   cmd        "scan" or "crawl"
\*   batch      the feeds fetched, each with the links and names extracted
\*              from its entries, in the order the loops visit them
\*   pass       1 in the first run over the batch, 2 in the run repeated
\*   f, i       the feed and the item the loops are at; i = 0 before the
\*              AddFeed of the feed itself
\*   phase      "item" before the item's first call, "edge" between AddFeed
\*              of a link's target and AddLink
\*   sourceID, targetID   the ids AddFeed returned
\*   exit       "running", then "ok" (return nil) or "error" (return err)
\*   faults     calls that have failed
\*   calls      the calls made: <<pass, f, i, op, err>>
NextFeed(p) ==
  IF p.f < Len(p.batch)
    THEN [p EXCEPT !.f = p.f + 1, !.i = 0, !.phase = "item"]
    ELSE [p EXCEPT !.exit = "ok"]

\* continue, or the end of the loop body: on to the next item, or feed.
Advance(p) ==
  IF p.i < Len(p.batch[p.f].items)
    THEN [p EXCEPT !.i = p.i + 1, !.phase = "item"]
    ELSE NextFeed(p)

Logged(p, op, err) ==
  [p EXCEPT !.calls = @ \cup {<<p.pass, p.f, p.i, op, err>>},
            !.faults = IF err THEN @ + 1 ELSE @]

Running == procs # <<>> /\ procs[1].exit = "running"

\* sourceID, err := g.AddFeed(...): cmdScan returns the error, cmdCrawl goes
\* on with the next feed.
AfterSource(p, err, id) ==
  IF err
    THEN IF p.cmd = "scan" THEN [p EXCEPT !.exit = "error"] ELSE NextFeed(p)
    ELSE Advance([p EXCEPT !.sourceID = id])

IngestSource ==
  /\ Running
  /\ procs[1].i = 0
  /\ LET p == procs[1]
         feed == p.batch[p.f]
     IN  /\ \/ AddFeed(feed.url, feed.title)
            \/ p.faults < MaxFaults /\ StoreFails("AddFeed", <<feed.url, feed.title>>)
         /\ procs' = <<AfterSource(Logged(p, "AddFeed", ret'.err), ret'.err, ret'.val)>>

\* if isSameDomain(...) { continue }
IngestSkip ==
  /\ Running
  /\ procs[1].i > 0
  /\ LET p == procs[1]
         item == p.batch[p.f].items[p.i]
     IN  /\ item.kind = "link"
         /\ IsSameDomain(p.batch[p.f].url, item.url)
         /\ procs' = <<Advance(p)>>
  /\ UNCHANGED <<feeds, links, mentions, snapshots, ret, now>>

\* The loop that goes on to AddLink whatever AddFeed returned.
AfterTargetUnchecked(p, err, id) == [p EXCEPT !.targetID = id, !.phase = "edge"]

\* targetID, err := g.AddFeed(...); if err != nil { continue }
AfterTarget(p, err, id) ==
  IF err THEN Advance(p) ELSE [p EXCEPT !.targetID = id, !.phase = "edge"]

IngestTarget ==
  /\ Running
  /\ procs[1].i > 0
  /\ procs[1].phase = "item"
  /\ LET p == procs[1]
         item == p.batch[p.f].items[p.i]
     IN  /\ item.kind = "link"
         /\ ~IsSameDomain(p.batch[p.f].url, item.url)
         /\ \/ AddFeed(item.url, item.text)
            \/ p.faults < MaxFaults /\ StoreFails("AddFeed", <<item.url, item.text>>)
         /\ procs' = <<AfterTarget(Logged(p, "AddFeed", ret'.err), ret'.err, ret'.val)>>

\* The loop that returns the error of a failed AddLink.
AfterEdgeReturning(p, err) == IF err THEN [p EXCEPT !.exit = "error"] ELSE Advance(p)

\* err = g.AddLink(...); if err == nil { totalLinks++ }
AfterEdge(p, err) == Advance(p)

IngestEdge ==
  /\ Running
  /\ procs[1].i > 0
  /\ procs[1].phase = "edge"
  /\ LET p == procs[1]
         item == p.batch[p.f].items[p.i]
         link == [source_id |-> p.sourceID, target_id |-> p.targetID, context |-> item.text,
                  post_url |-> item.post, post_title |-> "pt"]
     IN  /\ \/ AddLink(link)
            \/ p.faults < MaxFaults /\ StoreFails("AddLink", link)
         /\ procs' = <<AfterEdge(Logged(p, "AddLink", ret'.err), ret'.err)>>

\* err := g.AddMention(...); if err == nil { feedMentions++ }
IngestMention ==
  /\ Running
  /\ procs[1].i > 0
  /\ LET p == procs[1]
         item == p.batch[p.f].items[p.i]
         mention == [source_id |-> p.sourceID, name |-> item.name, entity_type |-> "PERSON",
                     context |-> "", post_url |-> item.post, post_title |-> "pt"]
     IN  /\ item.kind = "mention"
         /\ \/ AddMention(mention)
            \/ p.faults < MaxFaults /\ StoreFails("AddMention", mention)
         /\ procs' = <<Advance(Logged(p, "AddMention", ret'.err))>>

\* The command run a second time on the entries it has processed.
IngestAgain ==
  /\ procs # <<>>
  /\ procs[1].exit = "ok"
  /\ procs[1].pass = 1
  /\ procs' = <<[procs[1] EXCEPT !.pass = 2, !.f = 1, !.i = 0, !.phase = "item",
                                 !.sourceID = 0, !.targetID = 0, !.exit = "running"]>>
  /\ UNCHANGED <<feeds, links, mentions, snapshots, ret, now>>

(* ---------------------------------------------------------------- callers *)

\* Two callers on one database, procs = <<p1, p2>>.  AddFeed is two
\* statements, the SELECT of GetFeedByURL and the INSERT, and the statements
\* of the other caller may run between them; p.pc is "insert" from the
\* lookup that found nothing to the INSERT, with p.url and p.title the
\* arguments of the call.  Each statement runs alone.
Idle == [pc |-> "idle", url |-> "", title |-> ""]

\* existing, err := g.GetFeedByURL(feed.URL); if existing != nil { return
\* existing.ID, nil }
AddFeedLookup(c, url, title) ==
  /\ procs[c].pc = "idle"
  /\ IF GetFeedByURLResult(url) # Nil
       THEN /\ ret' = Call("AddFeed", <<url, title>>, GetFeedByURLResult(url).id, FALSE)
            /\ procs' = procs
       ELSE /\ ret' = Call("GetFeedByURL", <<url>>, Nil, FALSE)
            /\ procs' = [procs EXCEPT ![c] = [pc |-> "insert", url |-> url, title |-> title]]
  /\ UNCHANGED <<feeds, links, mentions, snapshots, now>>

\* result, err := g.db.Exec("INSERT INTO feeds ..."); if err != nil { return
\* 0, err }; return result.LastInsertId()
AddFeedInsert(c) ==
  /\ procs[c].pc = "insert"
  /\ LET ins == InsertFeed(procs[c].url, procs[c].title)
     IN  /\ feeds' = ins.rows
         /\ ret' = Call("AddFeed", <<procs[c].url, procs[c].title>>, ins.id, ins.err)
  /\ procs' = [procs EXCEPT ![c] = Idle]
  /\ UNCHANGED <<links, mentions, snapshots, now>>

(* --------------------------------------------------------- specifications *)

Init ==
  /\ procs = <<>>
  /\ feeds = {}
  /\ links = {}
  /\ mentions = {}
  /\ snapshots = {}
  /\ ret = Call("NewGraph", <<>>, 0, FALSE)
  /\ now = 0

NextGraph ==
  /\ \/ \E u \in URLs, t \in Titles : AddFeed(u, t)
     \/ \E u \in URLs : GetFeedByURL(u)
     \/ \E l \in LinkInputs : Cardinality(InsertOrIgnoreLink(l)) <= MaxLinks /\ AddLink(l)
     \/ GetMostLinked(MaxLimit)
  /\ UNCHANGED procs

SpecGraph == Init /\ [][NextGraph]_vars

NextMentions ==
  /\ \/ \E m \in MentionInputs :
          Cardinality(InsertOrIgnoreMention(m)) <= MaxMentions /\ AddMention(m)
     \/ \E e \in EntityTypes, n \in Limits : GetMostMentioned(e, n)
     \/ \E d \in Dates : TakeSnapshot(d)
     \/ \E d \in PruneDates : PruneSnapshots(d)
     \/ \E e \in EntityTypes, c \in Dates, p \in Dates : GetRisingMentions(e, c, p, MaxLimit)
  /\ UNCHANGED procs

SpecMentions == Init /\ [][NextMentions]_vars

\* The whole store, every operation, on a narrow set of inputs.
SmallLinkInputs == {l \in LinkInputs : l.source_id = 1 /\ l.target_id = 2 /\ l.context = "c1"}

SmallMentionInputs ==
  {m \in MentionInputs : m.entity_type = "PERSON" /\ (m.source_id = 1 \/ m.name = "n1")}

Next ==
  /\ \/ \E u \in URLs, t \in Titles : AddFeed(u, t)
     \/ \E u \in URLs : GetFeedByURL(u)
     \/ \E l \in SmallLinkInputs : Cardinality(InsertOrIgnoreLink(l)) <= MaxLinks /\ AddLink(l)
     \/ \E m \in SmallMentionInputs :
          Cardinality(InsertOrIgnoreMention(m)) <= MaxMentions /\ AddMention(m)
     \/ GetMostMentioned("PERSON", MaxLimit)
     \/ \E d \in Dates : TakeSnapshot(d)
     \/ \E d \in PruneDates : PruneSnapshots(d)
     \/ \E c \in Dates, p \in Dates : GetRisingMentions("PERSON", c, p, MaxLimit)
     \/ GetMostLinked(MaxLimit)
     \/ GetNewFeeds(1, MaxLimit)
     \/ GetOutboundLinks(1)
     \/ GetInboundLinks(2)
     \/ GetMentionsByFeed(1)
     \/ GetSnapshotDates
  /\ UNCHANGED procs

Spec == Init /\ [][Next]_vars

(***************************************************************************)
(* GetRisingMentions on a database with history.  NewGraph opens the file  *)
(* earlier runs left (CREATE TABLE IF NOT EXISTS keeps the rows), so the   *)
(* store starts in any state those runs can leave.  The initial states     *)
(* here are the ones left by: AddMention of previous[n] mentions of each   *)
(* name n, TakeSnapshot(1), AddMention up to current[n] mentions, and then *)
(* TakeSnapshot(2) or not.                                                 *)
(***************************************************************************)
RisingNames == <<"n1", "n2", "n3">>

RECURSIVE SumTo(_, _)
SumTo(f, i) == IF i = 0 THEN 0 ELSE f[i] + SumTo(f, i - 1)

\* The mention rows, with the ids the inserts gave them: the rows from before
\* the first snapshot, name by name, then the later ones.
HistoryMentions(previous, current) ==
  LET n == Len(RisingNames)
      late == [i \in 1..n |-> current[i] - previous[i]]
  IN  UNION { { [id |-> IF k <= previous[i]
                           THEN SumTo(previous, i - 1) + k
                           ELSE SumTo(previous, n) + SumTo(late, i - 1) + (k - previous[i]),
                  source_id |-> k, name |-> RisingNames[i], entity_type |-> "PERSON",
                  context |-> "", post_url |-> "p1", post_title |-> "pt"] :
                 k \in 1..current[i] } : i \in 1..n }

\* The values of the -n flag, an int the command passes on as it is.
CliLimits == -1..MaxLimit

InitRising ==
  /\ procs = <<>>
  /\ feeds = {}
  /\ links = {}
  /\ now = 0
  /\ ret = Call("NewGraph", <<>>, 0, FALSE)
  /\ \E current \in [1..Len(RisingNames) -> 0..MaxRows] :
       /\ SumTo(current, Len(RisingNames)) <= MaxRows
       /\ \E previous \in [1..Len(RisingNames) -> 0..MaxRows], second \in BOOLEAN :
            /\ \A i \in 1..Len(RisingNames) : previous[i] <= current[i]
            /\ mentions = HistoryMentions(previous, current)
            /\ snapshots =
                 {[name |-> RisingNames[i], entity_type |-> "PERSON",
                   mention_count |-> previous[i], snapshot_date |-> 1] :
                    i \in {j \in 1..Len(RisingNames) : previous[j] > 0}}
                 \cup
                 (IF second
                    THEN {[name |-> RisingNames[i], entity_type |-> "PERSON",
                           mention_count |-> current[i], snapshot_date |-> 2] :
                            i \in {j \in 1..Len(RisingNames) : current[j] > 0}}
                    ELSE {})

\* One query on the opened database, as cmdMentions runs it; the query changes
\* no table, so a second one would see what the first saw.
NextRising ==
  /\ ret.op = "NewGraph"
  /\ \E e \in EntityTypes, c \in Dates, p \in Dates, n \in CliLimits : GetRisingMentions(e, c, p, n)
  /\ UNCHANGED procs

SpecRising == InitRising /\ [][NextRising]_vars

(***************************************************************************)
(* The link queries on a database with history: four feeds, stored in the  *)
(* order of RankURLs, and the link rows left by AddLink calls for a set of *)
(* at most MaxEdges (source, target) pairs, made in the order of the       *)
(* pairs.                                                                  *)
(***************************************************************************)
RankURLs == <<"A", "B", "C", "D">>

RankFeedIds == 1..Len(RankURLs)

RankEdges == RankFeedIds \X RankFeedIds

\* The id the k-th INSERT of a run over the pairs gives its row.
EdgeRank(edges, e) ==
  Cardinality({d \in edges : d[1] < e[1] \/ (d[1] = e[1] /\ d[2] <= e[2])})

InitRank ==
  /\ procs = <<>>
  /\ feeds = {[id |-> i, url |-> RankURLs[i], title |-> "t1", created_at |-> 0] :
                i \in RankFeedIds}
  /\ \E edges \in SUBSET RankEdges :
       /\ Cardinality(edges) <= MaxEdges
       /\ links = {[id |-> EdgeRank(edges, e), source_id |-> e[1], target_id |-> e[2],
                    context |-> "c1", post_url |-> "p1", post_title |-> "pt"] : e \in edges}
  /\ mentions = {}
  /\ snapshots = {}
  /\ ret = Call("NewGraph", <<>>, 0, FALSE)
  /\ now = 0

\* One query on the opened database, as cmdRank runs it.
NextRank ==
  /\ ret.op = "NewGraph"
  /\ \/ \E n \in Limits : GetMostLinked(n)
     \/ \E f \in RankFeedIds : GetOutboundLinks(f)
     \/ \E f \in RankFeedIds : GetInboundLinks(f)
  /\ UNCHANGED procs

SpecRank == InitRank /\ [][NextRank]_vars

(***************************************************************************)
(* GetMostMentioned on a database with history: the mention rows left by   *)
(* AddMention calls for up to MaxCount sources per name and entity type,   *)
(* made name by name and type by type.                                     *)
(***************************************************************************)
MentionedTypes == <<"PERSON", "ORG">>

\* The (name, type, source) triples whose mention is stored.
MentionedTriples(count) ==
  {t \in (1..Len(RisingNames)) \X (1..Len(MentionedTypes)) \X (1..MaxCount) :
     t[3] <= count[t[1]][t[2]]}

\* The id the insert of the triple got: its place in the order of the calls.
TripleRank(triples, t) ==
  Cardinality({d \in triples :
                 \/ d[1] < t[1]
                 \/ d[1] = t[1] /\ d[2] < t[2]
                 \/ d[1] = t[1] /\ d[2] = t[2] /\ d[3] <= t[3]})

InitMentioned ==
  /\ procs = <<>>
  /\ feeds = {}
  /\ links = {}
  /\ snapshots = {}
  /\ now = 0
  /\ ret = Call("NewGraph", <<>>, 0, FALSE)
  /\ \E count \in [1..Len(RisingNames) -> [1..Len(MentionedTypes) -> 0..MaxCount]] :
       mentions = {[id |-> TripleRank(MentionedTriples(count), t), source_id |-> t[3],
                    name |-> RisingNames[t[1]], entity_type |-> MentionedTypes[t[2]],
                    context |-> "", post_url |-> "p1", post_title |-> "pt"] :
                     t \in MentionedTriples(count)}

\* One query on the opened database, as cmdMentions runs it.
NextMentioned ==
  /\ ret.op = "NewGraph"
  /\ \E e \in EntityTypes, n \in Limits : GetMostMentioned(e, n)
  /\ UNCHANGED procs

SpecMentioned == InitMentioned /\ [][NextMentioned]_vars

(***************************************************************************)
(* Feeds and links stored while the clock moves on, and the feeds of the   *)
(* last days listed, as cmdRank -new does.                                 *)
(***************************************************************************)
NewFeedLinkInputs == {l \in LinkInputs : l.context = "c1" /\ l.post_url = "p1"}

NextNewFeeds ==
  /\ \/ \E u \in URLs : AddFeed(u, "t1")
     \/ \E l \in NewFeedLinkInputs :
          Cardinality(InsertOrIgnoreLink(l)) <= MaxLinks /\ AddLink(l)
     \/ now < MaxNow /\ Tick
     \/ \E d \in Days, n \in Limits : GetNewFeeds(d, n)
  /\ UNCHANGED procs

SpecNewFeeds == Init /\ [][NextNewFeeds]_vars

(***************************************************************************)
(* The store as the crawl command with -snapshot fills it over the days:   *)
(* every snapshot carries the date the clock shows when it is taken, so a  *)
(* snapshot of a later date was written later.                             *)
(***************************************************************************)

\* The days the clock can show.
ClockDates == 0..MaxNow

\* today := time.Now().Format("2006-01-02"); g.TakeSnapshot(today)
SnapshotToday == TakeSnapshot(now)

\* One name, found by either feed and extracted as either type.
TimelineMentionInputs == {m \in MentionInputs : m.name = "n1"}

NextTimeline ==
  /\ \/ \E m \in TimelineMentionInputs :
          Cardinality(InsertOrIgnoreMention(m)) <= MaxMentions /\ AddMention(m)
     \/ now < MaxNow /\ Tick
     \/ SnapshotToday
     \/ \E d \in ClockDates : PruneSnapshots(d)
     \/ \E e \in EntityTypes, c \in ClockDates, p \in ClockDates :
          GetRisingMentions(e, c, p, MaxLimit)
  /\ UNCHANGED procs

SpecTimeline == Init /\ [][NextTimeline]_vars

(***************************************************************************)
(* cmdScan and cmdCrawl on an empty database: the batch is what the feed   *)
(* fetch and the extractors returned, the store calls may fail MaxFaults   *)
(* times, and the command is run again on the same batch.                  *)
(***************************************************************************)
Sites == <<"A", "B", "C">>

\* The links and names extracted from the entries of a feed.
IngestItems ==
  {[kind |-> "link", url |-> Sites[k], text |-> "t1", post |-> "p1"] : k \in 1..Len(Sites)}
    \cup {[kind |-> "mention", name |-> "n1", post |-> "p1"]}

ItemLists(items) == UNION {[1..n -> items] : n \in {0, 1, 2}}

\* cmdScan works on one feed and extracts links only; cmdCrawl on the feeds
\* of Miniflux.
Batches(cmd) ==
  LET lists == ItemLists(IF cmd = "scan" THEN {x \in IngestItems : x.kind = "link"}
                                         ELSE IngestItems)
      feed(k, l) == [url |-> Sites[k], title |-> "t1", items |-> l]
  IN  {<<feed(1, l)>> : l \in lists} \cup
      (IF cmd = "scan" THEN {} ELSE {<<feed(1, l), feed(2, m)>> : l \in lists, m \in lists})

InitIngest ==
  /\ feeds = {}
  /\ links = {}
  /\ mentions = {}
  /\ snapshots = {}
  /\ ret = Call("NewGraph", <<>>, 0, FALSE)
  /\ now = 0
  /\ \E cmd \in {"scan", "crawl"} : \E batch \in Batches(cmd) :
       procs = <<[cmd |-> cmd, batch |-> batch, pass |-> 1, f |-> 1, i |-> 0,
                  phase |-> "item", sourceID |-> 0, targetID |-> 0, exit |-> "running",
                  faults |-> 0, calls |-> {}]>>

NextIngest ==
  \/ IngestSource
  \/ IngestSkip
  \/ IngestTarget
  \/ IngestEdge
  \/ IngestMention
  \/ IngestAgain

SpecIngest == InitIngest /\ [][NextIngest]_vars

(***************************************************************************)
(* Two callers whose statements interleave.                                *)
(***************************************************************************)
InitCallers ==
  /\ feeds = {}
  /\ links = {}
  /\ mentions = {}
  /\ snapshots = {}
  /\ ret = Call("NewGraph", <<>>, 0, FALSE)
  /\ now = 0
  /\ procs = <<Idle, Idle>>

NextCallers ==
  \/ \E c \in {1, 2}, u \in URLs, t \in Titles : AddFeedLookup(c, u, t)
  \/ \E c \in {1, 2} : AddFeedInsert(c)
  \/ /\ \E l \in SmallLinkInputs : Cardinality(InsertOrIgnoreLink(l)) <= MaxLinks /\ AddLink(l)
     /\ UNCHANGED procs
  \/ /\ \E m \in SmallMentionInputs :
          Cardinality(InsertOrIgnoreMention(m)) <= MaxMentions /\ AddMention(m)
     /\ UNCHANGED procs

SpecCallers == InitCallers /\ [][NextCallers]_vars

(* ------------------------------------------------------------ properties *)

\* C1: AddFeed is idempotent per URL.  No step removes or changes a feed row,
\* and every AddFeed(u, t) returns without error the id of the one row whose
\* url is u: when a row for u was already stored the table is unchanged and
\* the id returned is that row's id (so the row keeps the title of the first
\* call and t is dropped); when none was stored the new row has title t.
C1_AddFeedIdempotent ==
  [][ /\ \A f \in feeds : f \in feeds'
      /\ ret'.op = "AddFeed" =>
           LET u == ret'.arg[1]
               before == {f \in feeds : f.url = u}
               after == {f \in feeds' : f.url = u}
           IN  /\ ~ret'.err
               /\ Cardinality(after) = 1
               /\ \A f \in after : f.id = ret'.val
               /\ before # {} => feeds' = feeds /\ (\A f \in before : f.id = ret'.val)
               /\ before = {} => \A f \in after : f.title = ret'.arg[2]
    ]_vars

\* A second AddFeed for a stored URL has returned the stored row's id although
\* it passed another title.
C1_Witness ==
  /\ ret.op = "AddFeed"
  /\ ~ret.err
  /\ \E f \in feeds : f.url = ret.arg[1] /\ f.title # ret.arg[2] /\ f.id = ret.val

\* C2: AddLink is insert-or-ignore on (source_id, target_id, post_url).  It
\* never fails; when no stored link has the triple it adds exactly one row,
\* carrying the fields passed; when one has it the links table is unchanged;
\* and no two stored links share a triple.
C2_AddLinkInsertOrIgnore ==
  [][ ret'.op = "AddLink" =>
        LET l == ret'.arg
            dup == {r \in links : LinkKey(r) = LinkKey(l)}
        IN  /\ ~ret'.err
            /\ dup # {} => links' = links
            /\ dup = {} =>
                 /\ links \subseteq links'
                 /\ Cardinality(links') = Cardinality(links) + 1
                 /\ \A r \in links' \ links :
                      /\ LinkKey(r) = LinkKey(l)
                      /\ r.context = l.context
                      /\ r.post_title = l.post_title
            /\ \A r1, r2 \in links' : LinkKey(r1) = LinkKey(r2) => r1 = r2
    ]_vars

\* An AddLink whose triple was stored with another context has been ignored,
\* while the same target is also cited by a second stored edge.
C2_Witness ==
  /\ ret.op = "AddLink"
  /\ \E r \in links :
       /\ LinkKey(r) = LinkKey(ret.arg)
       /\ r.context # ret.arg.context
       /\ \E r2 \in links : r2 # r /\ r2.target_id = r.target_id

\* C3: AddMention is insert-or-ignore on (source_id, name, post_url).  It
\* never fails; when no stored mention has the triple it adds exactly one row;
\* when one has it the mentions table, and with it every mention count, is
\* unchanged; and no two stored mentions share a triple.
C3_AddMentionInsertOrIgnore ==
  [][ ret'.op = "AddMention" =>
        LET m == ret'.arg
            dup == {r \in mentions : MentionKey(r) = MentionKey(m)}
        IN  /\ ~ret'.err
            /\ dup # {} =>
                 /\ mentions' = mentions
                 /\ \A e \in EntityTypes : LiveCounts(e)' = LiveCounts(e)
            /\ dup = {} =>
                 /\ mentions \subseteq mentions'
                 /\ Cardinality(mentions') = Cardinality(mentions) + 1
                 /\ \A r \in mentions' \ mentions :
                      /\ MentionKey(r) = MentionKey(m)
                      /\ r.entity_type = m.entity_type
            /\ \A r1, r2 \in mentions' : MentionKey(r1) = MentionKey(r2) => r1 = r2
    ]_vars

\* An AddMention whose triple was stored with another entity type has been
\* ignored, and another feed's mention of the same name and post is stored.
C3_Witness ==
  /\ ret.op = "AddMention"
  /\ \E r \in mentions :
       /\ MentionKey(r) = MentionKey(ret.arg)
       /\ r.entity_type # ret.arg.entity_type
       /\ \E r2 \in mentions : r2.name = r.name /\ r2.post_url = r.post_url /\ r2.source_id # r.source_id

(* The counts GetRisingMentions is documented to compare, read off the     *)
(* tables, and the status docs/rising-stars-spec.md gives a pair of counts. *)
LiveCount(entityType, name) ==
  Cardinality({m \in mentions : m.entity_type = entityType /\ m.name = name})

SnapshotRows(entityType, date) ==
  {s \in snapshots : s.entity_type = entityType /\ s.snapshot_date = date}

StoredCount(entityType, date, name) ==
  IF \E s \in SnapshotRows(entityType, date) : s.name = name
    THEN (CHOOSE s \in SnapshotRows(entityType, date) : s.name = name).mention_count
    ELSE 0

ExpectedCurrent(entityType, date, name) ==
  IF SnapshotRows(entityType, date) # {}
    THEN StoredCount(entityType, date, name)
    ELSE LiveCount(entityType, name)

ExpectedStatus(c, p) ==
  IF p = 0 THEN "new"
  ELSE IF c - p > p /\ c >= 3 THEN "hot"
  ELSE IF 2 * (c - p) > p THEN "rising"
  ELSE ""

EntryNames(r) == {r[i].Name : i \in 1..Len(r)}

\* C4: every entry GetRisingMentions returns carries the name's current count
\* c and its count p in the previous snapshot (0 if absent), the velocity
\* (c - p) / max(p, 1), which is c when p = 0, and the status "new" when
\* p = 0, else "hot" iff velocity > 1.0 and c >= 3, else "rising" iff
\* velocity > 0.5, with strict comparisons: velocity exactly 1.0 is not hot,
\* velocity exactly 0.5 is not rising, p=3,c=8 is hot and p=4,c=7 is rising.
C4_Classification ==
  ret.op = "GetRisingMentions" =>
    \A i \in 1..Len(ret.val) :
      LET e == ret.val[i]
          c == e.CurrentCount
          p == e.PreviousCount
      IN  /\ c = ExpectedCurrent(ret.arg[1], ret.arg[2], e.Name)
          /\ p = StoredCount(ret.arg[1], ret.arg[3], e.Name)
          /\ e.Velocity[2] > 0
          /\ e.Velocity[1] * (IF p > 1 THEN p ELSE 1) = (c - p) * e.Velocity[2]
          /\ p = 0 => e.Velocity[1] = c * e.Velocity[2] /\ e.Status = "new"
          /\ e.Status = ExpectedStatus(c, p)
          /\ (p > 0 /\ c - p = p) => e.Status # "hot"
          /\ (p > 0 /\ 2 * (c - p) = p) => e.Status # "rising"
          /\ (p = 3 /\ c = 8) => e.Status = "hot"
          /\ (p = 4 /\ c = 7) => e.Status = "rising"

\* A name that went from 3 to 8 mentions is returned as hot.
C4_Witness ==
  /\ ret.op = "GetRisingMentions"
  /\ \E i \in 1..Len(ret.val) :
       /\ ret.val[i].PreviousCount = 3
       /\ ret.val[i].CurrentCount = 8
       /\ ret.val[i].Status = "hot"

\* C5: a name with previous count 0 is returned only when its current count
\* is at least 2: previous=0, current=1 is left out, and previous=0,
\* current>=2 is in the result unless the limit cut it off.
C5_NewNeedsTwoMentions ==
  ret.op = "GetRisingMentions" =>
    /\ \A i \in 1..Len(ret.val) :
         ret.val[i].PreviousCount = 0 => ret.val[i].CurrentCount >= 2
    /\ Len(ret.val) < ret.arg[4] =>
         \A n \in DOMAIN CurrentCounts(ret.arg[1], ret.arg[2]) :
           (/\ StoredCount(ret.arg[1], ret.arg[3], n) = 0
            /\ ExpectedCurrent(ret.arg[1], ret.arg[2], n) >= 2) => n \in EntryNames(ret.val)

\* C6: for limit >= 0 GetRisingMentions returns only names whose status is
\* not empty (never a name with previous > 0 and velocity <= 0.5), no name
\* twice, in order of non-increasing velocity, min(limit, number of names
\* with a status) of them, and no name with a status that was cut off has a
\* velocity strictly greater than a returned one.
C6_FilterSortLimit ==
  (ret.op = "GetRisingMentions" /\ ret.arg[4] >= 0) =>
    LET r == ret.val
        names == DOMAIN CurrentCounts(ret.arg[1], ret.arg[2])
        cur(n) == ExpectedCurrent(ret.arg[1], ret.arg[2], n)
        prev(n) == StoredCount(ret.arg[1], ret.arg[3], n)
        withStatus == {n \in names : ExpectedStatus(cur(n), prev(n)) # ""}
        \* (c - p) / max(p, 1) of a name, as a fraction
        vel(n) == <<cur(n) - prev(n), IF prev(n) > 1 THEN prev(n) ELSE 1>>
    IN  /\ \A i \in 1..Len(r) : r[i].Name \in withStatus /\ r[i].Status # ""
        /\ \A i \in 1..Len(r) :
             ~(r[i].PreviousCount > 0 /\
               2 * (r[i].CurrentCount - r[i].PreviousCount) <= r[i].PreviousCount)
        /\ \A i, j \in 1..Len(r) : i # j => r[i].Name # r[j].Name
        /\ \A i, j \in 1..Len(r) : i < j => ~VelGreater(r[j].Velocity, r[i].Velocity)
        /\ Len(r) = IF ret.arg[4] < Cardinality(withStatus)
                      THEN ret.arg[4] ELSE Cardinality(withStatus)
        /\ \A n \in withStatus \ EntryNames(r) :
             \A i \in 1..Len(r) : ~VelGreater(vel(n), r[i].Velocity)

\* Three names have a status, the limit 2 cut one off, and the two returned
\* differ in velocity.
C6_Witness ==
  /\ ret.op = "GetRisingMentions"
  /\ ret.arg[4] = 2
  /\ Len(ret.val) = 2
  /\ VelGreater(ret.val[1].Velocity, ret.val[2].Velocity)
  /\ Cardinality({n \in DOMAIN CurrentCounts(ret.arg[1], ret.arg[2]) :
                    ExpectedStatus(ExpectedCurrent(ret.arg[1], ret.arg[2], n),
                                   StoredCount(ret.arg[1], ret.arg[3], n)) # ""}) = 3

\* C7: right after TakeSnapshot(D) the snapshot rows dated D are exactly the
\* live mentions grouped by (name, entity_type): one row per group, holding
\* the number of live mention rows of the group, no group missing and no
\* other row dated D; the call returns the number of groups.
C7_TakeSnapshotRecomputes ==
  ret.op = "TakeSnapshot" =>
    LET dated == {s \in snapshots : s.snapshot_date = ret.arg[1]}
        groups == {<<m.name, m.entity_type>> : m \in mentions}
    IN  /\ ~ret.err
        /\ ret.val = Cardinality(groups)
        /\ Cardinality(dated) = Cardinality(groups)
        /\ \A g \in groups : \E s \in dated : s.name = g[1] /\ s.entity_type = g[2]
        /\ \A s \in dated :
             /\ <<s.name, s.entity_type>> \in groups
             /\ s.mention_count = LiveCount(s.entity_type, s.name)

\* TakeSnapshot has written two groups that share a name and differ in the
\* entity type.
C7_Witness ==
  /\ ret.op = "TakeSnapshot"
  /\ ret.val = 2
  /\ \E s, t \in snapshots :
       /\ s.snapshot_date = ret.arg[1] /\ t.snapshot_date = ret.arg[1]
       /\ s.name = t.name /\ s.entity_type # t.entity_type

\* C8: the snapshot table never holds two rows with the same (name,
\* entity_type, snapshot_date), and after TakeSnapshot(D) each key dated D
\* holds the count of that call (the live count), whatever an earlier call
\* for D had stored.
C8_SnapshotReplace ==
  /\ \A s1, s2 \in snapshots : SnapshotKey(s1) = SnapshotKey(s2) => s1 = s2
  /\ ret.op = "TakeSnapshot" =>
       \A s \in snapshots :
         s.snapshot_date = ret.arg[1] => s.mention_count = LiveCount(s.entity_type, s.name)

\* After TakeSnapshot(D) a key holds 2 on day D while the other day's snapshot
\* of the same name holds 1: mentions were added between the two calls.
C8_Witness ==
  /\ ret.op = "TakeSnapshot"
  /\ \E s, t \in snapshots :
       /\ s.snapshot_date = ret.arg[1]
       /\ t.snapshot_date # ret.arg[1]
       /\ s.name = t.name /\ s.entity_type = t.entity_type
       /\ s.mention_count = 2 /\ t.mention_count = 1

\* C9: PruneSnapshots(D) deletes exactly the snapshot rows with
\* snapshot_date < D, returns how many it deleted, and leaves feeds, links
\* and mentions as they were.
C9_PruneBoundary ==
  [][ ret'.op = "PruneSnapshots" =>
        /\ ~ret'.err
        /\ snapshots' = {s \in snapshots : s.snapshot_date >= ret'.arg[1]}
        /\ ret'.val = Cardinality({s \in snapshots : s.snapshot_date < ret'.arg[1]})
        /\ feeds' = feeds /\ links' = links /\ mentions' = mentions
    ]_vars

\* A pruning has deleted a row and kept one dated on the cutoff day, with
\* feeds, links and mentions stored.
C9_Witness ==
  /\ ret.op = "PruneSnapshots"
  /\ ret.val > 0
  /\ \E s \in snapshots : s.snapshot_date = ret.arg[1]
  /\ feeds # {} /\ links # {} /\ mentions # {}

\* C10: when no snapshot row is dated currentDate, every entry of
\* GetRisingMentions carries the number of live mention rows of its name and
\* the requested type, which is the count GetMostMentioned reports for it,
\* and every name with a live mention of that type and a status is returned
\* unless the limit cut it off.
C10_LiveFallback ==
  (ret.op = "GetRisingMentions" /\ \A s \in snapshots : s.snapshot_date # ret.arg[2]) =>
    /\ \A i \in 1..Len(ret.val) :
         /\ ret.val[i].CurrentCount = LiveCount(ret.arg[1], ret.val[i].Name)
         /\ ret.val[i].CurrentCount > 0
         /\ \A q \in MostMentionedResults(ret.arg[1], Cardinality(Names)) :
              \E k \in 1..Len(q) :
                /\ q[k].Name = ret.val[i].Name
                /\ q[k].MentionCount = ret.val[i].CurrentCount
    /\ Len(ret.val) < ret.arg[4] =>
         \A m \in mentions :
           (/\ m.entity_type = ret.arg[1]
            /\ ExpectedStatus(LiveCount(ret.arg[1], m.name),
                              StoredCount(ret.arg[1], ret.arg[3], m.name)) # "")
             => m.name \in EntryNames(ret.val)

\* With no snapshot for currentDate and one for previousDate, a name that has
\* two live mentions and had one is returned with current count 2.
C10_Witness ==
  /\ ret.op = "GetRisingMentions"
  /\ \A s \in snapshots : s.snapshot_date # ret.arg[2]
  /\ \E s \in snapshots : s.snapshot_date = ret.arg[3]
  /\ \E i \in 1..Len(ret.val) :
       /\ ret.val[i].CurrentCount = 2
       /\ ret.val[i].PreviousCount = 1
       /\ LiveCount(ret.arg[1], ret.val[i].Name) = 2


\* C11: GetMostLinked(limit) with limit >= 0 returns, without error,
\* min(limit, k) entries for distinct feeds, k being the number of feeds with
\* at least one stored link row whose target is the feed; each entry carries a
\* stored feed and the number of link rows whose target it is, which is never
\* 0; the counts do not increase along the list; and no feed left out has a
\* larger count than a feed returned.
C11_MostLinked ==
  [][ (ret'.op = "GetMostLinked" /\ ret'.arg[1] >= 0) =>
        LET r == ret'.val
            k == Cardinality({f \in feeds : \E l \in links : l.target_id = f.id})
            inbound(f) == Cardinality({l \in links : l.target_id = f.id})
            returned == {r[i].Feed : i \in 1..Len(r)}
        IN  /\ ~ret'.err
            /\ Len(r) = (IF ret'.arg[1] < k THEN ret'.arg[1] ELSE k)
            /\ Cardinality(returned) = Len(r)
            /\ \A i \in 1..Len(r) :
                 /\ r[i].Feed \in feeds
                 /\ r[i].InboundCount = inbound(r[i].Feed)
                 /\ r[i].InboundCount > 0
            /\ \A i, j \in 1..Len(r) : i < j => r[i].InboundCount >= r[j].InboundCount
            /\ \A f \in feeds \ returned :
                 \A i \in 1..Len(r) : inbound(f) <= r[i].InboundCount
    ]_vars

\* A links to B, C and D, B links to D: D comes first with count 2, then B
\* and C, and A is absent.
C11_Witness ==
  /\ ret.op = "GetMostLinked"
  /\ {<<l.source_id, l.target_id>> : l \in links} = {<<1, 2>>, <<1, 3>>, <<1, 4>>, <<2, 4>>}
  /\ Len(ret.val) = 3
  /\ ret.val[1].Feed.url = "D"
  /\ ret.val[1].InboundCount = 2
  /\ \A i \in 1..Len(ret.val) : ret.val[i].Feed.url # "A"

\* C12: the count GetMostLinked reports for a feed is the number of distinct
\* other feeds that have at least one stored link to it: several posts of one
\* source citing the feed count once, and the feed's links to itself do not
\* count.
C12_CountsDistinctOtherFeeds ==
  [][ ret'.op = "GetMostLinked" =>
        \A i \in 1..Len(ret'.val) :
          ret'.val[i].InboundCount =
            Cardinality({l.source_id : l \in {x \in links :
                                               /\ x.target_id = ret'.val[i].Feed.id
                                               /\ x.source_id # ret'.val[i].Feed.id}})
    ]_vars

\* C13: GetFeedByURL(u) never fails; it returns the absent result exactly
\* when no stored feed row has the url u, compared as an exact string, and
\* otherwise the stored row whose url is u.  A successful AddFeed(u, t) leaves
\* a row with url u and the returned, non-zero id, with title t when u was
\* not stored before; no step changes or removes a feed row, and no two rows
\* share a url, so every later GetFeedByURL(u) returns that id with the title
\* of the first AddFeed for u.
C13_GetFeedByURL ==
  [][ /\ \A f \in feeds : f \in feeds'
      /\ \A f, g \in feeds' : f.url = g.url => f = g
      /\ ret'.op = "GetFeedByURL" =>
           /\ ~ret'.err
           /\ ret'.val = Nil <=> ~\E f \in feeds' : f.url = ret'.arg[1]
           /\ ret'.val # Nil =>
                /\ ret'.val \in feeds'
                /\ ret'.val.url = ret'.arg[1]
                /\ ret'.val.id # 0
      /\ (ret'.op = "AddFeed" /\ ~ret'.err) =>
           \E f \in feeds' :
             /\ f.url = ret'.arg[1]
             /\ f.id = ret'.val
             /\ f.id # 0
             /\ (\A g \in feeds : g.url # ret'.arg[1]) => f.title = ret'.arg[2]
    ]_vars

\* The lookup of "u1/" finds nothing although "u1" is stored.
C13_Witness ==
  /\ ret.op = "GetFeedByURL"
  /\ ret.arg = <<"u1/">>
  /\ ret.val = Nil
  /\ \E f \in feeds : f.url = "u1" /\ f.id # 0

C15_NewFeeds ==
  [][ (ret'.op = "GetNewFeeds" /\ now' = now /\ ret'.arg[2] >= 0) =>
        LET r == ret'.val
            recent == {f \in feeds : now - f.created_at <= ret'.arg[1]}
            returned == {r[i].Feed : i \in 1..Len(r)}
            k == Cardinality(recent)
        IN  /\ ~ret'.err
            /\ Len(r) = (IF ret'.arg[2] < k THEN ret'.arg[2] ELSE k)
            /\ Cardinality(returned) = Len(r)
            /\ returned \subseteq recent
            /\ \A i \in 1..Len(r) :
                 r[i].InboundCount = Cardinality({l \in links : l.target_id = r[i].Feed.id})
            /\ \A i, j \in 1..Len(r) : i < j => r[i].Feed.created_at >= r[j].Feed.created_at
            /\ \A f \in recent \ returned :
                 \A i \in 1..Len(r) : f.created_at <= r[i].Feed.created_at
    ]_vars

\* Two days after the first feed was stored and one day after the second,
\* GetNewFeeds(1, MaxLimit) lists the second only, with count 0, although the
\* first has an inbound link.
C15_Witness ==
  /\ ret.op = "GetNewFeeds"
  /\ ret.arg = <<1, MaxLimit>>
  /\ now = 2
  /\ Len(ret.val) = 1
  /\ ret.val[1].Feed.created_at = 1
  /\ ret.val[1].InboundCount = 0
  /\ \E f \in feeds : f.created_at = 0 /\ \E l \in links : l.target_id = f.id

\* C16: GetOutboundLinks(f) returns, without error, each stored link row
\* whose source_id is f exactly once and nothing else, and GetInboundLinks(f)
\* does so for the rows whose target_id is f; the list is empty when there is
\* no such row; and the length of GetInboundLinks(f) is the count every
\* GetMostLinked result of the same state carries for the feed with id f.
C16_InboundOutbound ==
  [][ /\ ret'.op = "GetOutboundLinks" =>
           /\ ~ret'.err
           /\ {ret'.val[i] : i \in 1..Len(ret'.val)} =
                {l \in links : l.source_id = ret'.arg[1]}
           /\ Len(ret'.val) = Cardinality({l \in links : l.source_id = ret'.arg[1]})
      /\ ret'.op = "GetInboundLinks" =>
           /\ ~ret'.err
           /\ {ret'.val[i] : i \in 1..Len(ret'.val)} =
                {l \in links : l.target_id = ret'.arg[1]}
           /\ Len(ret'.val) = Cardinality({l \in links : l.target_id = ret'.arg[1]})
           /\ \A ranked \in MostLinkedResults(Cardinality(feeds)) :
                \A i \in 1..Len(ranked) :
                  ranked[i].Feed.id = ret'.arg[1] => ranked[i].InboundCount = Len(ret'.val)
    ]_vars

\* Feed D is cited by two feeds and cites one itself: GetInboundLinks(D)
\* returns the two rows and not D's own link.
C16_Witness ==
  /\ ret.op = "GetInboundLinks"
  /\ ret.arg = <<4>>
  /\ Len(ret.val) = 2
  /\ \E l \in links : l.source_id = 4 /\ l.target_id # 4
  /\ \E i \in 1..Len(ret.val) : ret.val[i].source_id = 1

\* C17: GetSnapshotDates returns, without error, exactly the dates that have
\* at least one snapshot row, most recent first and each once (the list is
\* strictly descending).  After a TakeSnapshot(D) that had rows to write, D is
\* one of these dates; after PruneSnapshots(B) no date before B is.
C17_SnapshotDates ==
  [][ /\ ret'.op = "GetSnapshotDates" =>
           /\ ~ret'.err
           /\ {ret'.val[i] : i \in 1..Len(ret'.val)} = {s.snapshot_date : s \in snapshots}
           /\ \A i, j \in 1..Len(ret'.val) : i < j => ret'.val[i] > ret'.val[j]
      /\ (ret'.op = "TakeSnapshot" /\ mentions # {}) =>
           \E s \in snapshots' : s.snapshot_date = ret'.arg[1]
      /\ ret'.op = "PruneSnapshots" =>
           \A s \in snapshots' : s.snapshot_date >= ret'.arg[1]
    ]_vars

\* One row dated 1 and two rows dated 2: the dates come back as 2, 1.
C17_Witness ==
  /\ ret.op = "GetSnapshotDates"
  /\ ret.val = <<2, 1>>
  /\ Cardinality({s \in snapshots : s.snapshot_date = 2}) = 2
  /\ Cardinality({s \in snapshots : s.snapshot_date = 1}) = 1

\* C18: the queries are pure reads.  A step of GetMostLinked, GetNewFeeds,
\* GetMostMentioned, GetMentionsByFeed, GetInboundLinks, GetOutboundLinks,
\* GetFeedByURL, GetSnapshotDates or GetRisingMentions leaves the feeds,
\* links, mentions and mention_snapshots tables as they were; GetRisingMentions
\* that falls back to the live counts stores no snapshot for currentDate.
C18_QueriesArePureReads ==
  [][ ret'.op \in {"GetMostLinked", "GetNewFeeds", "GetMostMentioned", "GetMentionsByFeed",
                   "GetInboundLinks", "GetOutboundLinks", "GetFeedByURL",
                   "GetSnapshotDates", "GetRisingMentions"} =>
        /\ feeds' = feeds
        /\ links' = links
        /\ mentions' = mentions
        /\ snapshots' = snapshots
    ]_vars

\* GetRisingMentions has returned entries computed from the live counts, and
\* the store has a snapshot for the previous date and none for currentDate.
C18_Witness ==
  /\ ret.op = "GetRisingMentions"
  /\ ret.arg[2] = 2
  /\ ret.arg[3] = 1
  /\ Len(ret.val) > 0
  /\ \E s \in snapshots : s.snapshot_date = 1
  /\ \A s \in snapshots : s.snapshot_date # 2
  /\ \E m \in mentions : m.name = ret.val[1].Name

\* C19: facts are permanent.  Whatever the step (AddFeed, AddLink, AddMention,
\* TakeSnapshot, PruneSnapshots or a query), every feed, link and mention row
\* stored before it is stored after it with the same id and the same values;
\* so no table of the three loses rows, and neither the number of link rows
\* pointing at a feed nor the number of mentions of a name under an entity
\* type ever goes down.
C19_FactsArePermanent ==
  [][ /\ feeds \subseteq feeds'
      /\ links \subseteq links'
      /\ mentions \subseteq mentions'
      /\ Cardinality(feeds') >= Cardinality(feeds)
      /\ Cardinality(links') >= Cardinality(links)
      /\ Cardinality(mentions') >= Cardinality(mentions)
      /\ \A t \in FeedIds :
           Cardinality({l \in links' : l.target_id = t}) >=
             Cardinality({l \in links : l.target_id = t})
      /\ \A n \in Names, e \in EntityTypes :
           Cardinality({m \in mentions' : m.name = n /\ m.entity_type = e}) >=
             Cardinality({m \in mentions : m.name = n /\ m.entity_type = e})
    ]_vars

\* PruneSnapshots has deleted snapshot rows, and the feeds, the links and the
\* mentions stored before are all there, ids included.
C19_Witness ==
  /\ ret.op = "PruneSnapshots"
  /\ ret.val > 0
  /\ snapshots = {}
  /\ {f.id : f \in feeds} = {1, 2}
  /\ {l.id : l \in links} = {1, 2}
  /\ {m.id : m \in mentions} = {1, 2}

\* C20: a snapshot key (name, entity_type, snapshot_date) that is stored stays
\* stored across every step except a PruneSnapshots(beforeDate) with a later
\* beforeDate; TakeSnapshot(D) leaves every row of another date as it was; and
\* AddFeed, AddLink and AddMention leave the snapshot table as it was, so a
\* stored count stays behind the live mentions until TakeSnapshot runs again
\* for its date.
C20_SnapshotLifecycle ==
  [][ /\ \A s \in snapshots :
           \/ \E t \in snapshots' : SnapshotKey(t) = SnapshotKey(s)
           \/ ret'.op = "PruneSnapshots" /\ s.snapshot_date < ret'.arg[1]
      /\ ret'.op = "TakeSnapshot" =>
           \A s \in snapshots : s.snapshot_date # ret'.arg[1] => s \in snapshots'
      /\ ret'.op \in {"AddFeed", "AddLink", "AddMention"} => snapshots' = snapshots
    ]_vars

\* A mention was added after the snapshot of date 1: that row still says 1,
\* behind the two live mentions.
C20_Witness ==
  /\ ret.op = "AddMention"
  /\ \E s \in snapshots :
       /\ s.snapshot_date = 1
       /\ s.mention_count = 1
       /\ Cardinality({m \in mentions : m.name = s.name /\ m.entity_type = s.entity_type}) = 2

\* C21: re-ingestion is idempotent.  When no store call has failed, every
\* step of the second run of scan or crawl over the same entries returns
\* without error and leaves the feeds, links and mentions tables exactly as
\* they were, and so leaves the number of links pointing at each feed and the
\* number of mentions of each name as they were; the second run ends with
\* return nil.
C21_ReingestionIdempotent ==
  [][ (Running /\ procs[1].pass = 2 /\ procs'[1].faults = 0) =>
        /\ feeds' = feeds
        /\ links' = links
        /\ mentions' = mentions
        /\ ~ret'.err
        /\ procs'[1].exit # "error"
        /\ \A f \in feeds :
             Cardinality({l \in links' : l.target_id = f.id}) =
               Cardinality({l \in links : l.target_id = f.id})
        /\ \A n \in Names :
             Cardinality({m \in mentions' : m.name = n /\ m.entity_type = "PERSON"}) =
               Cardinality({m \in mentions : m.name = n /\ m.entity_type = "PERSON"})
    ]_vars

\* The second crawl of two feeds has ended: it has submitted a link and a
\* mention again, and the store holds one link row and one mention row.
C21_Witness ==
  /\ procs # <<>>
  /\ procs[1].cmd = "crawl"
  /\ procs[1].pass = 2
  /\ procs[1].exit = "ok"
  /\ procs[1].faults = 0
  /\ \E c \in procs[1].calls : c[1] = 2 /\ c[4] = "AddLink"
  /\ \E c \in procs[1].calls : c[1] = 2 /\ c[4] = "AddMention"
  /\ Cardinality(links) = 1
  /\ Cardinality(mentions) = 1
  /\ Cardinality(feeds) = 2

\* C22: ingestion is best effort.  A step of scan or crawl never removes or
\* changes a stored feed, link or mention; a failed AddLink leaves the links
\* table as it was and the target feed, created just before, stored; the
\* command returns an error only when cmdScan's AddFeed of the source feed
\* fails, never for a link target, a link or a mention; and when the command
\* returns nil every feed of the batch has been submitted and, for each feed
\* whose AddFeed succeeded, every link to another site has had its target
\* submitted, every target stored has had its link submitted, and every name
\* has had its mention submitted, whatever failed before.
C22_BestEffortIngestion ==
  [][ procs' # procs =>
        LET p == procs[1]
            q == procs'[1]
            called(pass, f, i, op) == \E c \in q.calls : <<c[1], c[2], c[3], c[4]>> = <<pass, f, i, op>>
            succeeded(pass, f, i, op) == <<pass, f, i, op, FALSE>> \in q.calls
        IN  /\ feeds \subseteq feeds'
            /\ links \subseteq links'
            /\ mentions \subseteq mentions'
            /\ (q.calls # p.calls /\ ret'.op = "AddLink" /\ ret'.err) =>
                 /\ links' = links
                 /\ \E f \in feeds' : f.id = p.targetID
                 /\ q.exit # "error"
            /\ q.exit = "error" =>
                 /\ q.cmd = "scan"
                 /\ p.i = 0
                 /\ ret'.op = "AddFeed"
            /\ q.exit = "ok" =>
                 \A f \in 1..Len(q.batch) :
                   /\ called(q.pass, f, 0, "AddFeed")
                   /\ succeeded(q.pass, f, 0, "AddFeed") =>
                        \A i \in 1..Len(q.batch[f].items) :
                          LET item == q.batch[f].items[i]
                          IN  /\ (item.kind = "link" /\ item.url # q.batch[f].url) =>
                                   /\ called(q.pass, f, i, "AddFeed")
                                   /\ succeeded(q.pass, f, i, "AddFeed") =>
                                        called(q.pass, f, i, "AddLink")
                              /\ item.kind = "mention" => called(q.pass, f, i, "AddMention")
    ]_vars

\* The crawl has returned nil although the AddLink of the first item failed:
\* the target feed is stored without the edge, and the mention that came
\* after it is stored.
C22_Witness ==
  /\ procs # <<>>
  /\ procs[1].cmd = "crawl"
  /\ procs[1].pass = 1
  /\ procs[1].exit = "ok"
  /\ <<1, 1, 1, "AddLink", TRUE>> \in procs[1].calls
  /\ <<1, 1, 2, "AddMention", FALSE>> \in procs[1].calls
  /\ links = {}
  /\ Cardinality(feeds) = 2
  /\ Cardinality(mentions) = 1

\* C26: in every state that scan and crawl reach, runs with failed store
\* calls included, the source_id and the target_id of every stored link and
\* the source_id of every stored mention are ids of stored feed rows.
C26_ReferentialIntegrity ==
  /\ \A l \in links : {l.source_id, l.target_id} \subseteq {f.id : f \in feeds}
  /\ \A m \in mentions : m.source_id \in {f.id : f \in feeds}

\* The AddFeed of one link target has failed and the crawl has gone on to
\* store another link and a mention.
C26_Witness ==
  /\ procs # <<>>
  /\ procs[1].exit = "ok"
  /\ \E c \in procs[1].calls : c[3] > 0 /\ c[4] = "AddFeed" /\ c[5]
  /\ links # {}
  /\ mentions # {}

\* C23: however the statements of two callers interleave, both lookups of
\* AddFeed for one new URL before either INSERT included, no state holds two
\* feed rows with the same url, two link rows with the same (source_id,
\* target_id, post_url) or two mention rows with the same (source_id, name,
\* post_url).
C23_UniqueUnderInterleaving ==
  /\ \A f, g \in feeds : f.url = g.url => f = g
  /\ \A k, l \in links : LinkKey(k) = LinkKey(l) => k = l
  /\ \A m, n \in mentions : MentionKey(m) = MentionKey(n) => m = n

\* Both callers looked "u1" up before either inserted it: the second INSERT
\* has failed on the UNIQUE url and the one row of the first is stored.  A
\* link and a mention have been stored a second time in between.
C23_Witness ==
  /\ ret.op = "AddFeed"
  /\ ret.err
  /\ ret.arg[1] = "u1"
  /\ Cardinality({f \in feeds : f.url = "u1"}) = 1
  /\ links # {}
  /\ mentions # {}

\* C30: two AddFeed calls for one URL that is not stored, whose lookups both
\* run before either INSERT, both return the id of the one stored row and
\* neither returns an error.  An AddFeed that found no row and inserts after
\* the other caller has is the only AddFeed whose INSERT meets a stored url,
\* so this says: no AddFeed of interleaved callers returns an error, and each
\* returns the id of the row that has its url.
C30_RacingAddFeedsBothSucceed ==
  [][ ret'.op = "AddFeed" =>
        /\ ~ret'.err
        /\ \E f \in feeds' : f.url = ret'.arg[1] /\ f.id = ret'.val
    ]_vars

\* C24: GetRisingMentions takes the live counts for the current period if
\* and only if the snapshot table holds no row dated currentDate.  When no
\* such row exists every entry carries the live count of its name; when rows
\* dated currentDate exist, of whatever entity type, every entry carries the
\* count of the snapshot row of its name, the requested type and currentDate,
\* and no entry is made from live mentions.
C24_FallbackOnlyWithoutDatedRows ==
  ret.op = "GetRisingMentions" =>
    LET dated == {s \in snapshots : s.snapshot_date = ret.arg[2]}
    IN  \A i \in 1..Len(ret.val) :
          IF dated = {}
            THEN ret.val[i].CurrentCount =
                   Cardinality({m \in mentions : /\ m.entity_type = ret.arg[1]
                                                 /\ m.name = ret.val[i].Name})
            ELSE \E s \in dated : /\ s.name = ret.val[i].Name
                                  /\ s.entity_type = ret.arg[1]
                                  /\ s.mention_count = ret.val[i].CurrentCount

\* C25: the previous period has no live fallback.  When the snapshot table
\* holds no row of the requested type dated previousDate, every entry of
\* GetRisingMentions has PreviousCount 0, status "new" and a velocity equal
\* to its current count, whatever the live mentions are, and every name of
\* the current set with a count of 2 or more is returned unless the limit cut
\* it off.  In every result the names returned are names of the current set:
\* a name found in the previous snapshot only never appears.
C25_NoFallbackForPrevious ==
  ret.op = "GetRisingMentions" =>
    LET e == ret.arg[1]
        cur == {s \in snapshots : s.entity_type = e /\ s.snapshot_date = ret.arg[2]}
        prev == {s \in snapshots : s.entity_type = e /\ s.snapshot_date = ret.arg[3]}
        live == {m \in mentions : m.entity_type = e}
        currentSet == IF cur # {} THEN {s.name : s \in cur} ELSE {m.name : m \in live}
        count(n) == IF cur # {} THEN (CHOOSE s \in cur : s.name = n).mention_count
                                ELSE Cardinality({m \in live : m.name = n})
        returned == {ret.val[i].Name : i \in 1..Len(ret.val)}
    IN  /\ returned \subseteq currentSet
        /\ prev = {} =>
             /\ \A i \in 1..Len(ret.val) :
                  /\ ret.val[i].PreviousCount = 0
                  /\ ret.val[i].Status = "new"
                  /\ ret.val[i].Velocity[1] = ret.val[i].CurrentCount * ret.val[i].Velocity[2]
             /\ Len(ret.val) < ret.arg[4] =>
                  \A n \in currentSet : count(n) >= 2 => n \in returned

\* No snapshot is dated previousDate; the name returned has two live mentions
\* and is new with previous count 0.
C25_Witness ==
  /\ ret.op = "GetRisingMentions"
  /\ ret.arg[2] = 1
  /\ ret.arg[3] = 2
  /\ snapshots # {}
  /\ \A s \in snapshots : s.snapshot_date = 1
  /\ Len(ret.val) = 1
  /\ ret.val[1].Status = "new"
  /\ ret.val[1].PreviousCount = 0
  /\ Cardinality({m \in mentions : m.name = ret.val[1].Name /\ m.entity_type = ret.arg[1]}) = 2

\* C27: in every GetRisingMentions result an entry with status "rising" has
\* 0.5 < velocity <= 1.0 and an entry with status "hot" has velocity > 1.0;
\* an entry with a previous count of 1 or more and velocity > 1.0 has a
\* current count of 3 or more and is "hot", so the current >= 3 test demotes
\* nothing; and no "rising" entry stands before a "hot" one.
C27_HotAboveRising ==
  ret.op = "GetRisingMentions" =>
    LET r == ret.val
    IN  /\ \A i \in 1..Len(r) :
             /\ r[i].Status = "rising" =>
                  /\ 2 * r[i].Velocity[1] > r[i].Velocity[2]
                  /\ r[i].Velocity[1] <= r[i].Velocity[2]
             /\ r[i].Status = "hot" => r[i].Velocity[1] > r[i].Velocity[2]
             /\ (r[i].PreviousCount >= 1 /\ r[i].Velocity[1] > r[i].Velocity[2]) =>
                  /\ r[i].CurrentCount >= 3
                  /\ r[i].Status = "hot"
        /\ \A i, j \in 1..Len(r) :
             (r[i].Status = "hot" /\ r[j].Status = "rising") => i < j

\* A name that went from 1 to 3 is hot and stands before a name that went
\* from 2 to 4, which is rising with velocity exactly 1.0.
C27_Witness ==
  /\ ret.op = "GetRisingMentions"
  /\ \E i, j \in 1..Len(ret.val) :
       /\ i < j
       /\ ret.val[i].Status = "hot"
       /\ ret.val[i].PreviousCount = 1
       /\ ret.val[i].CurrentCount = 3
       /\ ret.val[j].Status = "rising"
       /\ ret.val[j].PreviousCount = 2
       /\ ret.val[j].CurrentCount = 4

\* C28: mentions are never deleted, so the live count of a (name,
\* entity_type) never falls and the count a TakeSnapshot writes is not below
\* any count an earlier TakeSnapshot stored for it; and when the snapshot of
\* previousDate was written no later than the one of currentDate, or the
\* current counts are the live ones, GetRisingMentions returns no entry with
\* a current count below the previous count or with a negative velocity, and
\* computes none for the names it leaves out.
C28_SnapshotCountsMonotone ==
  [][/\ \A e \in EntityTypes, n \in Names : LiveCount(e, n)' >= LiveCount(e, n)
     /\ \A w \in snapshots' \ snapshots, s \in snapshots :
          (w.name = s.name /\ w.entity_type = s.entity_type) =>
            w.mention_count >= s.mention_count
     /\ (ret'.op = "GetRisingMentions" /\ now' = now) =>
          LET entityType == ret'.arg[1]
              currentDate == ret'.arg[2]
              previousDate == ret'.arg[3]
          IN  (previousDate <= currentDate \/ SnapshotRows(entityType, currentDate) = {}) =>
                /\ \A name \in DOMAIN CurrentCounts(entityType, currentDate) :
                     LET current == CurrentCounts(entityType, currentDate)[name]
                         previous == PreviousCount(entityType, previousDate, name)
                     IN  /\ current >= previous
                         /\ Classify(current, previous).Velocity[1] >= 0
                         /\ Classify(current, previous).Velocity[2] > 0
                /\ \A i \in 1..Len(ret'.val) :
                     /\ ret'.val[i].CurrentCount >= ret'.val[i].PreviousCount
                     /\ ret'.val[i].Velocity[1] >= 0
    ]_vars

\* A name had one mention at the snapshot of day 0 and two at the snapshot
\* of day 1; the query over the two days returns it with counts 2 and 1.
C28_Witness ==
  /\ ret.op = "GetRisingMentions"
  /\ ret.arg[2] = 1
  /\ ret.arg[3] = 0
  /\ \E s \in SnapshotRows(ret.arg[1], 0), t \in SnapshotRows(ret.arg[1], 1) :
       /\ s.name = t.name
       /\ s.mention_count = 1
       /\ t.mention_count = 2
       /\ \E i \in 1..Len(ret.val) :
            /\ ret.val[i].Name = s.name
            /\ ret.val[i].CurrentCount = 2
            /\ ret.val[i].PreviousCount = 1

\* C29: GetRisingMentions returns at most limit entries for every limit >= 0,
\* none for limit = 0, and for every integer limit, a negative one from the
\* -n flag included, the call completes without a runtime fault.
C29_EveryLimitCompletes ==
  /\ ret.op # "panic"
  /\ (ret.op = "GetRisingMentions" /\ ret.arg[4] >= 0) => Len(ret.val) <= ret.arg[4]

====
